---- MODULE Spec2Model ----
(***************************************************************************)
(* Model of the hybrid prioritization engine of                            *)
(* src/backend/ai/prioritizer.py (class MessagePrioritizer):               *)
(*   prioritize_batch -> _prioritize_single_batch -> _merge_priorities     *)
(*   -> _apply_multipliers, with _fallback_prioritization on failure.      *)
(*                                                                         *)
(* Scores handled inside _apply_multipliers are Python floats.  They are   *)
(* represented in fixed point: a float x is the integer x * SCALE.  The    *)
(* multipliers are represented in units of 1/MULT_UNIT.                    *)
(***************************************************************************)
EXTENDS Integers, Sequences, FiniteSets, TLC

VARIABLES
    messages,      \* prioritize_batch: argument `messages`
    batch_size,    \* prioritize_batch: argument/local `batch_size`
    pc,            \* position of the (single) task running the engine
    i,             \* prioritize_batch: loop variable of range(0, len, batch_size)
    attempt,       \* _prioritize_single_batch: loop variable of range(max_retries)
    response,      \* _prioritize_single_batch: parsed body of the model response
    merged,        \* _prioritize_single_batch: local `merged` (input of _apply_multipliers)
    prioritized,   \* prioritize_batch: the accumulating output list
    your_user_id,  \* environment: YOUR_USER_ID (read by _apply_multipliers)
    outcomes,      \* history: outcome of every attempt of the current batch
    requests,      \* history: model requests issued for the current batch
    args,          \* a helper method called on its own: its name and arguments
    result,        \* a helper method called on its own: its return value
    total_requests,\* history: model requests issued since prioritize_batch was called
    db,            \* database: the slack_messages rows and their insights
    new_messages,  \* prioritize_new_messages: local `messages` (ids of the rows)
    save_pos,      \* prioritize_new_messages: position of the save loop
    saved_count,   \* prioritize_new_messages: local `saved_count`
    errors,        \* prioritize_new_messages: local `errors`
    stats          \* prioritize_new_messages: the returned dict

\* the database and the locals of prioritize_new_messages
runVars == <<db, new_messages, save_pos, saved_count, errors, stats>>

vars == <<messages, batch_size, pc, i, attempt, response, merged, prioritized,
          your_user_id, outcomes, requests, args, result, total_requests,
          runVars>>

----------------------------------------------------------------------------
(* Bounds of the model *)

MaxMsgs == 2
MaxBatch == 2
MaxBase == 120
MaxScore == 110
MaxMult == 30
MaxRows == 3
MaxFetch == 2

(* Program constants *)

MULT_UNIT == 10
SCALE == 1000
VIP_MULTIPLIER == 20
MENTION_MULTIPLIER == 20
PRIORITY_CHANNEL_MULTIPLIER == 15
\* variant of MUTED_CHANNEL_MULTIPLIER: a penalty of 0.9
MUTED_CHANNEL_MULTIPLIER_weak == 10 - 1

MUTED_CHANNEL_MULTIPLIER == 5
\* variant of max_retries: one attempt more
max_retries_plus_one == 3 + 1

max_retries == 3

Min(a, b) == IF a < b THEN a ELSE b

----------------------------------------------------------------------------
(* Preferences, normalised by __init__ (lowercase + strip) *)

Normalize(name) ==
    CASE name = "Boss " -> "boss"
      [] name = "Alerts" -> "alerts"
      [] OTHER -> name

UserPreferences ==
    [key_people    |-> {"Boss "},
     key_channels  |-> {"Alerts", "both"},
     mute_channels |-> {"random", "both"}]

vip_people == {Normalize(p) : p \in UserPreferences.key_people}
priority_channels == {Normalize(c) : c \in UserPreferences.key_channels}
muted_channels == {Normalize(c) : c \in UserPreferences.mute_channels}

----------------------------------------------------------------------------
(* Message text: a sequence of tokens.  Lower is str.lower on a token;      *)
(* Occurs(word, tok) is the substring test `word in tok`.                   *)

Lower(tok) ==
    CASE tok = "URGENT" -> "urgent"
      [] tok = "FYI" -> "fyi"
      [] tok = "<@U1>" -> "<@u1>"
      [] tok = "<@U2>" -> "<@u2>"
      [] OTHER -> tok

LowerText(text) == [k \in 1..Len(text) |-> Lower(text[k])]

Occurs(word, tok) ==
    \/ tok = word
    \/ word = "@" /\ tok \in {"<@u1>", "<@u2>", "<@U1>", "<@U2>"}

WordIn(word, text) == \E k \in 1..Len(text) : Occurs(word, text[k])

AnyWordIn(words, text) == \E w \in words : WordIn(w, text)

MentionToken(uid) == "<@" \o uid \o ">"

IsMentioned(text) ==
    /\ your_user_id # ""
    /\ \E k \in 1..Len(text) : text[k] = MentionToken(your_user_id)

----------------------------------------------------------------------------
(* Records *)

Categories == {"needs_response", "high_priority", "fyi", "low_priority"}

PlainReason(r) == [reason |-> r, adjusted |-> <<>>, transition |-> <<>>]

AdjustedReason(r, adjustments, base, final) ==
    [reason |-> r.reason, adjusted |-> adjustments, transition |-> <<base, final>>]

\* {**msg, "priority_score": s, "priority_reason": r, "category": c}
Scored(msg, s, r, c) ==
    [user_name |-> msg.user_name, channel_name |-> msg.channel_name,
     text |-> msg.text,
     priority_score |-> s, priority_reason |-> r, category |-> c]

\* the input fields of a scored message
Unscored(sm) ==
    [user_name |-> sm.user_name, channel_name |-> sm.channel_name, text |-> sm.text]

----------------------------------------------------------------------------
(* _score_to_category *)

\* variant of ScoreToCategory: the top threshold is 90
ScoreToCategoryNinety(score) ==
    IF score >= 90 THEN "needs_response"
    ELSE IF score >= 70 THEN "high_priority"
    ELSE IF score >= 50 THEN "fyi"
    ELSE "low_priority"

ScoreToCategory(score) ==
    IF score >= 80 THEN "needs_response"
    ELSE IF score >= 70 THEN "high_priority"
    ELSE IF score >= 50 THEN "fyi"
    ELSE "low_priority"

----------------------------------------------------------------------------
(* _fallback_prioritization *)

\* variant of FallbackOne: the mention group is tested before the urgent group
FallbackOneMentionFirst(msg) ==
    LET text == LowerText(msg.text) IN
    IF AnyWordIn({"@", "mention"}, text)
    THEN Scored(msg, 85, PlainReason("Contains @mention"), "needs_response")
    ELSE IF AnyWordIn({"urgent", "asap", "emergency", "critical", "blocking"}, text)
    THEN Scored(msg, 90, PlainReason("Contains urgent keywords"), "needs_response")
    ELSE IF AnyWordIn({"production", "down", "error", "issue"}, text)
    THEN Scored(msg, 80, PlainReason("Production-related keywords"), "high_priority")
    ELSE IF AnyWordIn({"decision", "approval", "review"}, text)
    THEN Scored(msg, 75, PlainReason("Decision required"), "high_priority")
    ELSE IF AnyWordIn({"fyi", "update", "reminder"}, text)
    THEN Scored(msg, 40, PlainReason("Informational"), "fyi")
    ELSE IF AnyWordIn({"lol", "coffee", "lunch", "casual"}, text)
    THEN Scored(msg, 20, PlainReason("Casual conversation"), "low_priority")
    ELSE Scored(msg, 50, PlainReason("Fallback prioritization"), "fyi")

FallbackOne(msg) ==
    LET text == LowerText(msg.text) IN
    IF AnyWordIn({"urgent", "asap", "emergency", "critical", "blocking"}, text)
    THEN Scored(msg, 90, PlainReason("Contains urgent keywords"), "needs_response")
    ELSE IF AnyWordIn({"@", "mention"}, text)
    THEN Scored(msg, 85, PlainReason("Contains @mention"), "needs_response")
    ELSE IF AnyWordIn({"production", "down", "error", "issue"}, text)
    THEN Scored(msg, 80, PlainReason("Production-related keywords"), "high_priority")
    ELSE IF AnyWordIn({"decision", "approval", "review"}, text)
    THEN Scored(msg, 75, PlainReason("Decision required"), "high_priority")
    ELSE IF AnyWordIn({"fyi", "update", "reminder"}, text)
    THEN Scored(msg, 40, PlainReason("Informational"), "fyi")
    ELSE IF AnyWordIn({"lol", "coffee", "lunch", "casual"}, text)
    THEN Scored(msg, 20, PlainReason("Casual conversation"), "low_priority")
    ELSE Scored(msg, 50, PlainReason("Fallback prioritization"), "fyi")

FallbackPrioritization(msgs) == [k \in 1..Len(msgs) |-> FallbackOne(msgs[k])]

----------------------------------------------------------------------------
(* _merge_priorities *)

DefaultPriority ==
    [score |-> 50, reason |-> "No priority assigned by AI", category |-> "fyi"]

\* priority_lookup = {p['message_number']: p for p in priorities}:
\* a later entry with the same message_number replaces an earlier one.
LookupKeys(priorities) ==
    {priorities[k].message_number : k \in 1..Len(priorities)}

LookupGet(priorities, n) ==
    LET ks == {k \in 1..Len(priorities) : priorities[k].message_number = n}
        last == CHOOSE k \in ks : \A j \in ks : j <= k
    IN  priorities[last]

\* variant of MergePriorities: the entries are taken by position in the list
MergeByPosition(msgs, priorities) ==
    [k \in 1..Len(msgs) |->
        LET priority == IF k <= Len(priorities) THEN priorities[k]
                        ELSE DefaultPriority
        IN  Scored(msgs[k], priority.score, PlainReason(priority.reason),
                   priority.category)]

MergePriorities(msgs, priorities) ==
    [k \in 1..Len(msgs) |->
        LET priority == IF k \in LookupKeys(priorities)
                        THEN LookupGet(priorities, k)
                        ELSE DefaultPriority
        IN  Scored(msgs[k], priority.score, PlainReason(priority.reason),
                   priority.category)]

----------------------------------------------------------------------------
(* _apply_diminishing_multiplier, on fixed-point scores.  The product       *)
(* boost_factor * score * (headroom / 100) is divided in two stages so that *)
(* no intermediate value leaves the 32-bit integers.                        *)

\* variant of ApplyDiminishingMultiplier: the diminishing-returns term is used
\* for every multiplier, penalties included
ApplyDiminishingAlways(score, multiplier) ==
    LET boost_factor == multiplier - MULT_UNIT
        headroom == 100 * SCALE - score
        t == boost_factor * score
        effective_boost ==
            ((t * (headroom \div SCALE)) + ((t * (headroom % SCALE)) \div SCALE))
                \div (MULT_UNIT * 100)
    IN  score + effective_boost

\* variant of ApplyDiminishingMultiplier: every multiplier is a plain product
ApplyPlainMultiplier(score, multiplier) == (score * multiplier) \div MULT_UNIT

ApplyDiminishingMultiplier(score, multiplier) ==
    IF multiplier = MULT_UNIT THEN score
    ELSE IF multiplier < MULT_UNIT THEN (score * multiplier) \div MULT_UNIT
    ELSE
        LET boost_factor == multiplier - MULT_UNIT
            headroom == 100 * SCALE - score
            t == boost_factor * score
            effective_boost ==
                ((t * (headroom \div SCALE)) + ((t * (headroom % SCALE)) \div SCALE))
                    \div (MULT_UNIT * 100)
        IN  score + effective_boost

\* Python round(): to the nearest integer, ties to the even one
Round(x) ==
    LET q == x \div SCALE
        r == x % SCALE
    IN  IF 2 * r > SCALE THEN q + 1
        ELSE IF 2 * r < SCALE THEN q
        ELSE IF q % 2 = 0 THEN q ELSE q + 1

----------------------------------------------------------------------------
(* _apply_multipliers: the body of the loop, for one message *)

\* variant of ChannelStep: the priority list is looked at before the muted list
ChannelStepPriorityFirst(channel_name, is_mentioned, st) ==
    IF channel_name \in priority_channels
    THEN [score |-> ApplyDiminishingMultiplier(st.score, PRIORITY_CHANNEL_MULTIPLIER),
          adjustments |-> Append(st.adjustments, "priority channel x1.5")]
    ELSE IF channel_name \in muted_channels THEN
        IF is_mentioned
        THEN [score |-> st.score,
              adjustments |-> Append(st.adjustments,
                                     "muted channel skipped (@mention override)")]
        ELSE [score |-> ApplyDiminishingMultiplier(st.score, MUTED_CHANNEL_MULTIPLIER),
              adjustments |-> Append(st.adjustments, "muted channel x0.5")]
    ELSE st

\* variant of ChannelStep: the muted penalty does not look at the mention
ChannelStepNoOverride(channel_name, is_mentioned, st) ==
    IF channel_name \in muted_channels
    THEN [score |-> ApplyDiminishingMultiplier(st.score, MUTED_CHANNEL_MULTIPLIER),
          adjustments |-> Append(st.adjustments, "muted channel x0.5")]
    ELSE IF channel_name \in priority_channels
    THEN [score |-> ApplyDiminishingMultiplier(st.score, PRIORITY_CHANNEL_MULTIPLIER),
          adjustments |-> Append(st.adjustments, "priority channel x1.5")]
    ELSE st

ChannelStep(channel_name, is_mentioned, st) ==
    IF channel_name \in muted_channels THEN
        IF is_mentioned
        THEN [score |-> st.score,
              adjustments |-> Append(st.adjustments,
                                     "muted channel skipped (@mention override)")]
        ELSE [score |-> ApplyDiminishingMultiplier(st.score, MUTED_CHANNEL_MULTIPLIER),
              adjustments |-> Append(st.adjustments, "muted channel x0.5")]
    ELSE IF channel_name \in priority_channels
    THEN [score |-> ApplyDiminishingMultiplier(st.score, PRIORITY_CHANNEL_MULTIPLIER),
          adjustments |-> Append(st.adjustments, "priority channel x1.5")]
    ELSE st

MentionStep(is_mentioned, st) ==
    IF is_mentioned
    THEN [score |-> ApplyDiminishingMultiplier(st.score, MENTION_MULTIPLIER),
          adjustments |-> Append(st.adjustments, "@mention x2.0")]
    ELSE st

VipStep(user_name, st) ==
    IF user_name \in vip_people
    THEN [score |-> ApplyDiminishingMultiplier(st.score, VIP_MULTIPLIER),
          adjustments |-> Append(st.adjustments, "VIP x2.0")]
    ELSE st

\* variant of AdjustOne: the reason is annotated for every message
AdjustOneAlwaysAnnotate(msg) ==
    LET base_score == msg.priority_score
        user_name == Normalize(msg.user_name)
        channel_name == Normalize(msg.channel_name)
        is_mentioned == IsMentioned(msg.text)
        st0 == [score |-> base_score * SCALE, adjustments |-> <<>>]
        st1 == ChannelStep(channel_name, is_mentioned, st0)
        st2 == MentionStep(is_mentioned, st1)
        st3 == VipStep(user_name, st2)
        final_score == Round(st3.score)
        reason == AdjustedReason(msg.priority_reason, st3.adjustments,
                                 base_score, final_score)
    IN  Scored(msg, final_score, reason, ScoreToCategory(final_score))

\* variant of AdjustOne: the category is recomputed only when a rule fired
AdjustOneKeepCategory(msg) ==
    LET base_score == msg.priority_score
        user_name == Normalize(msg.user_name)
        channel_name == Normalize(msg.channel_name)
        is_mentioned == IsMentioned(msg.text)
        st0 == [score |-> base_score * SCALE, adjustments |-> <<>>]
        st1 == ChannelStep(channel_name, is_mentioned, st0)
        st2 == MentionStep(is_mentioned, st1)
        st3 == VipStep(user_name, st2)
        final_score == Round(st3.score)
    IN  IF st3.adjustments # <<>>
        THEN Scored(msg, final_score,
                    AdjustedReason(msg.priority_reason, st3.adjustments,
                                   base_score, final_score),
                    ScoreToCategory(final_score))
        ELSE Scored(msg, final_score, msg.priority_reason, msg.category)

\* variant of AdjustOne: the VIP step is taken first
AdjustOneVipFirst(msg) ==
    LET base_score == msg.priority_score
        user_name == Normalize(msg.user_name)
        channel_name == Normalize(msg.channel_name)
        is_mentioned == IsMentioned(msg.text)
        st0 == [score |-> base_score * SCALE, adjustments |-> <<>>]
        st1 == VipStep(user_name, st0)
        st2 == ChannelStep(channel_name, is_mentioned, st1)
        st3 == MentionStep(is_mentioned, st2)
        final_score == Round(st3.score)
        reason == IF st3.adjustments # <<>>
                  THEN AdjustedReason(msg.priority_reason, st3.adjustments,
                                      base_score, final_score)
                  ELSE msg.priority_reason
    IN  Scored(msg, final_score, reason, ScoreToCategory(final_score))

\* variant of AdjustOne: the channel step is taken after the VIP step
AdjustOneChannelLast(msg) ==
    LET base_score == msg.priority_score
        user_name == Normalize(msg.user_name)
        channel_name == Normalize(msg.channel_name)
        is_mentioned == IsMentioned(msg.text)
        st0 == [score |-> base_score * SCALE, adjustments |-> <<>>]
        st1 == MentionStep(is_mentioned, st0)
        st2 == VipStep(user_name, st1)
        st3 == ChannelStep(channel_name, is_mentioned, st2)
        final_score == Round(st3.score)
        reason == IF st3.adjustments # <<>>
                  THEN AdjustedReason(msg.priority_reason, st3.adjustments,
                                      base_score, final_score)
                  ELSE msg.priority_reason
    IN  Scored(msg, final_score, reason, ScoreToCategory(final_score))

AdjustOne(msg) ==
    LET base_score == msg.priority_score
        user_name == Normalize(msg.user_name)
        channel_name == Normalize(msg.channel_name)
        is_mentioned == IsMentioned(msg.text)
        st0 == [score |-> base_score * SCALE, adjustments |-> <<>>]
        st1 == ChannelStep(channel_name, is_mentioned, st0)
        st2 == MentionStep(is_mentioned, st1)
        st3 == VipStep(user_name, st2)
        final_score == Round(st3.score)
        reason == IF st3.adjustments # <<>>
                  THEN AdjustedReason(msg.priority_reason, st3.adjustments,
                                      base_score, final_score)
                  ELSE msg.priority_reason
    IN  Scored(msg, final_score, reason, ScoreToCategory(final_score))

ApplyMultipliers(msgs) == [k \in 1..Len(msgs) |-> AdjustOne(msgs[k])]

----------------------------------------------------------------------------
(* Inputs: the messages handed to prioritize_batch and the bodies the model *)
(* may answer with.                                                         *)

Users == {"Boss ", "bob"}
Channels == {"general", "Alerts", "random", "both"}
Texts ==
    {<<"URGENT", "<@U1>">>, <<"<@U1>", "lunch">>, <<"<@U2>", "error">>,
     <<"server", "down">>, <<"review", "update">>, <<"FYI", "update">>,
     <<"lunch">>, <<"hello">>}
UserIds == {"", "U1"}

Message(u, c, t) == [user_name |-> u, channel_name |-> c, text |-> t]

AllMessages == {Message(u, c, t) : u \in Users, c \in Channels, t \in Texts}

MsgUniverse ==
    {Message("Boss ", "general", <<"server", "down">>),
     Message("bob", "random", <<"<@U1>", "lunch">>),
     Message("bob", "Alerts", <<"FYI", "update">>),
     Message("bob", "general", <<"hello">>)}

InputLists == UNION {[1..n -> MsgUniverse] : n \in 0..MaxMsgs}

EntryPool ==
    {[score |-> 60, reason |-> "Project update", category |-> "needs_response"],
     [score |-> 150, reason |-> "Production outage", category |-> "fyi"]}

Entries(n) ==
    {[message_number |-> k, score |-> p.score, reason |-> p.reason,
      category |-> p.category] : k \in 1..n, p \in EntryPool}

\* a JSON body with a `priorities` list of 0..n+1 entries, or a body that is
\* not valid JSON
Responses(n) ==
    {[kind |-> "json", priorities |-> ps] :
        ps \in UNION {[1..len -> Entries(n)] : len \in 0..(n + 1)}}
    \cup {[kind |-> "malformed", priorities |-> <<>>]}

NoResponse == [kind |-> "none", priorities |-> <<>>]

\* no helper method is being called on its own
NoCall == [fn |-> "none"]
NoResult == <<>>

\* no database attached, prioritize_new_messages not called
NoRows == <<>>
NoStats == [total_messages |-> 0, prioritized |-> 0, errors |-> <<>>, returned |-> FALSE]

----------------------------------------------------------------------------
(* prioritize_batch and _prioritize_single_batch *)

\* batch = messages[i:i+batch_size]
Batch == SubSeq(messages, i + 1, Min(i + batch_size, Len(messages)))

\* variant of Extend: the batch results are not in the list yet when the loop
\* goes on (the batch is left running)
ExtendLater(list, batch_results) == list

\* variant of Extend: the batch results are put in front of the list
ExtendInFront(list, batch_results) == batch_results \o list

\* prioritized.extend(batch_results)
Extend(list, batch_results) == list \o batch_results

Init ==
    /\ messages = <<>>
    /\ batch_size = 1
    /\ pc = "idle"
    /\ i = 0
    /\ attempt = 0
    /\ response = NoResponse
    /\ merged = <<>>
    /\ prioritized = <<>>
    /\ your_user_id = "U1"
    /\ outcomes = <<>>
    /\ requests = 0
    /\ args = NoCall
    /\ result = NoResult
    /\ total_requests = 0
    /\ db = NoRows
    /\ new_messages = <<>>
    /\ save_pos = 0
    /\ saved_count = 0
    /\ errors = <<>>
    /\ stats = NoStats

\* prioritize_batch(msgs, bs) is called
PrioritizeBatch ==
    /\ pc = "idle"
    /\ \E msgs \in InputLists, bs \in 1..MaxBatch :
          /\ messages' = msgs
          /\ batch_size' = bs
    /\ prioritized' = <<>>
    /\ i' = 0
    /\ pc' = "loop"
    /\ total_requests' = 0
    /\ UNCHANGED <<attempt, response, merged, your_user_id, args, result,
                   runVars,
                   outcomes, requests>>

\* variant of NextBatch: the attempt counter is shared by all batches
NextBatchSharedAttempts ==
    /\ pc = "loop"
    /\ i < Len(messages)
    /\ outcomes' = <<>>
    /\ requests' = 0
    /\ pc' = "request"
    /\ UNCHANGED <<messages, batch_size, i, attempt, response, merged, prioritized,
                   your_user_id, args, result, total_requests, runVars>>

\* the for loop takes the next batch and enters _prioritize_single_batch
NextBatch ==
    /\ pc = "loop"
    /\ i < Len(messages)
    /\ attempt' = 0
    /\ outcomes' = <<>>
    /\ requests' = 0
    /\ pc' = "request"
    /\ UNCHANGED <<messages, batch_size, i, response, merged, prioritized,
                   your_user_id, args, result, total_requests, runVars>>

\* the for loop is exhausted: return prioritized
Return ==
    /\ pc = "loop"
    /\ i >= Len(messages)
    /\ pc' = "returned"
    /\ UNCHANGED <<messages, batch_size, i, attempt, response, merged,
                   prioritized,
                   your_user_id, args, result, total_requests, runVars,
                   outcomes, requests>>

\* the retry loop: while attempts remain, openai_client.chat.completions.create(...)
\* is issued and awaited; an exhausted loop falls through to the final fallback
SendRequest ==
    /\ pc = "request"
    /\ IF attempt < max_retries THEN
           /\ requests' = requests + 1
           /\ total_requests' = total_requests + 1
           /\ pc' = "awaiting"
           /\ UNCHANGED <<prioritized, i>>
       ELSE
           /\ prioritized' = Extend(prioritized, FallbackPrioritization(Batch))
           /\ i' = i + batch_size
           /\ pc' = "loop"
           /\ UNCHANGED <<requests, total_requests>>
    /\ UNCHANGED <<messages, batch_size, attempt, response, merged,
                   your_user_id,
                   args, result, runVars, outcomes>>

\* variant of Handled: only the JSONDecodeError clause is present
HandledJSONOnly(exc) == exc = "JSONDecodeError"

\* the exception classes the try statement has a handler for
Handled(exc) == exc \in {"JSONDecodeError", "Exception"}

\* variant of ExceptClause: the first failure falls back at once
ExceptClauseNoRetry(exc) ==
    IF ~Handled(exc) THEN
        /\ pc' = "raised"
        /\ UNCHANGED <<attempt, prioritized, i>>
    ELSE
        /\ prioritized' = Extend(prioritized, FallbackPrioritization(Batch))
        /\ i' = i + batch_size
        /\ pc' = "loop"
        /\ UNCHANGED attempt

\* variant of ExceptClause: the last failure yields the neutral defaults of
\* _merge_priorities instead of the keyword fallback
ExceptClauseDefaults(exc) ==
    IF ~Handled(exc) THEN
        /\ pc' = "raised"
        /\ UNCHANGED <<attempt, prioritized, i>>
    ELSE IF attempt < max_retries - 1 THEN
        /\ attempt' = attempt + 1
        /\ pc' = "request"
        /\ UNCHANGED <<prioritized, i>>
    ELSE
        /\ prioritized' = Extend(prioritized, MergePriorities(Batch, <<>>))
        /\ i' = i + batch_size
        /\ pc' = "loop"
        /\ UNCHANGED attempt

\* the two except clauses: retry while attempts remain, else fall back
ExceptClause(exc) ==
    IF ~Handled(exc) THEN
        /\ pc' = "raised"
        /\ UNCHANGED <<attempt, prioritized, i>>
    ELSE IF attempt < max_retries - 1 THEN
        /\ attempt' = attempt + 1
        /\ pc' = "request"
        /\ UNCHANGED <<prioritized, i>>
    ELSE
        /\ prioritized' = Extend(prioritized, FallbackPrioritization(Batch))
        /\ i' = i + batch_size
        /\ pc' = "loop"
        /\ UNCHANGED attempt

\* the request fails: transport, timeout, authentication, rate limit
RequestRaises ==
    /\ pc = "awaiting"
    /\ ExceptClause("Exception")
    /\ outcomes' = Append(outcomes, "Exception")
    /\ response' = NoResponse
    /\ UNCHANGED <<messages, batch_size, merged, your_user_id, args, result,
                   total_requests, runVars, requests>>

\* the request returns a body
ModelResponds ==
    /\ pc = "awaiting"
    /\ \E r \in Responses(Len(Batch)) : response' = r
    /\ pc' = "parsing"
    /\ UNCHANGED <<messages, batch_size, i, attempt, merged, prioritized,
                   your_user_id, args, result, total_requests, runVars,
                   outcomes, requests>>

\* json.loads raises JSONDecodeError
ParseRaises ==
    /\ pc = "parsing"
    /\ response.kind = "malformed"
    /\ ExceptClause("JSONDecodeError")
    /\ outcomes' = Append(outcomes, "JSONDecodeError")
    /\ response' = NoResponse
    /\ UNCHANGED <<messages, batch_size, merged, your_user_id, args, result,
                   total_requests, runVars, requests>>

\* len(priorities) != len(messages) and attempts remain: continue
CountMismatchRetry ==
    /\ pc = "parsing"
    /\ response.kind = "json"
    /\ Len(response.priorities) # Len(Batch)
    /\ attempt < max_retries - 1
    /\ attempt' = attempt + 1
    /\ outcomes' = Append(outcomes, "mismatch")
    /\ response' = NoResponse
    /\ pc' = "request"
    /\ UNCHANGED <<messages, batch_size, i, merged, prioritized,
                   your_user_id, args, result, total_requests, runVars,
                   requests>>

\* merged = self._merge_priorities(messages, priorities)
Merge ==
    /\ pc = "parsing"
    /\ response.kind = "json"
    /\ ~(Len(response.priorities) # Len(Batch) /\ attempt < max_retries - 1)
    /\ merged' = MergePriorities(Batch, response.priorities)
    /\ outcomes' = Append(outcomes, IF Len(response.priorities) = Len(Batch)
                                    THEN "ok" ELSE "mismatch")
    /\ pc' = "merged"
    /\ UNCHANGED <<messages, batch_size, i, attempt, response, prioritized,
                   your_user_id, args, result, total_requests, runVars,
                   requests>>

\* variant of ApplyAndReturn: the priority fields are written into the input
\* records themselves, which are then appended
ApplyAndReturnInPlace ==
    /\ pc = "merged"
    /\ messages' = [k \in 1..Len(messages) |->
                        IF k \in (i + 1)..(i + Len(merged))
                        THEN ApplyMultipliers(merged)[k - i]
                        ELSE messages[k]]
    /\ prioritized' = Extend(prioritized, ApplyMultipliers(merged))
    /\ i' = i + batch_size
    /\ merged' = <<>>
    /\ response' = NoResponse
    /\ pc' = "loop"
    /\ UNCHANGED <<batch_size, attempt, your_user_id, args, result,
                   total_requests, runVars, outcomes, requests>>

\* return self._apply_multipliers(merged); prioritized.extend(batch_results)
ApplyAndReturn ==
    /\ pc = "merged"
    /\ prioritized' = Extend(prioritized, ApplyMultipliers(merged))
    /\ i' = i + batch_size
    /\ merged' = <<>>
    /\ response' = NoResponse
    /\ pc' = "loop"
    /\ UNCHANGED <<messages, batch_size, attempt, your_user_id, args, result,
                   total_requests, runVars, outcomes, requests>>

Next ==
    \/ PrioritizeBatch
    \/ NextBatch
    \/ Return
    \/ SendRequest
    \/ RequestRaises
    \/ ModelResponds
    \/ ParseRaises
    \/ CountMismatchRetry
    \/ Merge
    \/ ApplyAndReturn

Spec == Init /\ [][Next]_vars

\* the engine runs in one task that is always scheduled again, and every model
\* request ends (timeout=60.0): a step that can be taken is eventually taken
FairSpec == Spec /\ WF_vars(Next)

----------------------------------------------------------------------------
(* _apply_multipliers on its own: one merged message with any base score *)

InitMul ==
    /\ messages = <<>>
    /\ batch_size = 1
    /\ pc = "mul_call"
    /\ i = 0
    /\ attempt = 0
    /\ response = NoResponse
    /\ merged \in {<<Scored(m, b, PlainReason("Project update"), c)>> :
                      m \in AllMessages, b \in 0..MaxBase,
                      c \in {"fyi", "needs_response"}}
    /\ prioritized = <<>>
    /\ your_user_id \in UserIds
    /\ outcomes = <<>>
    /\ requests = 0
    /\ args = NoCall
    /\ result = NoResult
    /\ total_requests = 0
    /\ db = NoRows
    /\ new_messages = <<>>
    /\ save_pos = 0
    /\ saved_count = 0
    /\ errors = <<>>
    /\ stats = NoStats

MulApply ==
    /\ pc = "mul_call"
    /\ prioritized' = ApplyMultipliers(merged)
    /\ pc' = "mul_done"
    /\ UNCHANGED <<messages, batch_size, i, attempt, response, merged,
                   your_user_id, args, result, total_requests, runVars,
                   outcomes, requests>>

NextMul == MulApply

SpecMul == InitMul /\ [][NextMul]_vars

----------------------------------------------------------------------------
(* The helper methods called on their own: _apply_diminishing_multiplier    *)
(* with any score and multiplier, _score_to_category with any integer       *)
(* score, _fallback_prioritization with any one-message list.               *)

FnScores == (0 - MaxScore)..MaxScore
FnMultipliers == 0..MaxMult

\* the texts of Texts, as written and in lower case
FallbackTexts == Texts \cup {LowerText(t) : t \in Texts}

DiminishCalls ==
    {[fn |-> "_apply_diminishing_multiplier", score |-> s * SCALE, multiplier |-> m] :
        s \in FnScores, m \in FnMultipliers}

CategoryCalls == {[fn |-> "_score_to_category", score |-> s] : s \in FnScores}

FallbackCalls ==
    {[fn |-> "_fallback_prioritization", messages |-> <<Message(u, c, t)>>] :
        u \in Users, c \in Channels, t \in FallbackTexts}

InitFn ==
    /\ messages = <<>>
    /\ batch_size = 1
    /\ pc = "fn_call"
    /\ i = 0
    /\ attempt = 0
    /\ response = NoResponse
    /\ merged = <<>>
    /\ prioritized = <<>>
    /\ your_user_id = "U1"
    /\ outcomes = <<>>
    /\ requests = 0
    /\ args \in DiminishCalls \cup CategoryCalls \cup FallbackCalls
    /\ result = NoResult
    /\ total_requests = 0
    /\ db = NoRows
    /\ new_messages = <<>>
    /\ save_pos = 0
    /\ saved_count = 0
    /\ errors = <<>>
    /\ stats = NoStats

CallDiminish ==
    /\ pc = "fn_call"
    /\ args.fn = "_apply_diminishing_multiplier"
    /\ result' = ApplyDiminishingMultiplier(args.score, args.multiplier)
    /\ pc' = "fn_done"
    /\ UNCHANGED <<messages, batch_size, i, attempt, response, merged,
                   prioritized,
                   your_user_id, outcomes, requests, args, total_requests,
                   runVars>>

CallScoreToCategory ==
    /\ pc = "fn_call"
    /\ args.fn = "_score_to_category"
    /\ result' = ScoreToCategory(args.score)
    /\ pc' = "fn_done"
    /\ UNCHANGED <<messages, batch_size, i, attempt, response, merged,
                   prioritized,
                   your_user_id, outcomes, requests, args, total_requests,
                   runVars>>

CallFallback ==
    /\ pc = "fn_call"
    /\ args.fn = "_fallback_prioritization"
    /\ result' = FallbackPrioritization(args.messages)
    /\ pc' = "fn_done"
    /\ UNCHANGED <<messages, batch_size, i, attempt, response, merged,
                   prioritized,
                   your_user_id, outcomes, requests, args, total_requests,
                   runVars>>

NextFn == CallDiminish \/ CallScoreToCategory \/ CallFallback

SpecFn == InitFn /\ [][NextFn]_vars

\* the call of the named helper method has returned
Returned(fn) == pc = "fn_done" /\ args.fn = fn

----------------------------------------------------------------------------
(* prioritize_new_messages over the database.  A row of slack_messages is   *)
(* [processed_at, insights]: whether processed_at is set and how many       *)
(* message_insights rows point to it; its id is its position in db, and     *)
(* rows are inserted in the order of their timestamps.                      *)

\* the content of the row with the given id
RowMessages ==
    <<Message("bob", "general", <<"hello">>),
      Message("Boss ", "general", <<"server", "down">>),
      Message("bob", "random", <<"<@U1>", "lunch">>),
      Message("bob", "Alerts", <<"FYI", "update">>)>>

RowMessage(id) == RowMessages[((id - 1) % Len(RowMessages)) + 1]

\* _message_obj_to_dict: the message dict carries the id of its row as db_id
MessageObjToDict(id) == [db_id |-> id] @@ RowMessage(id)

\* filter(processed_at IS NULL).order_by(timestamp.desc()).limit(limit):
\* the ids of the newest `limit` unprocessed rows, newest first
GetUnprocessedMessages(rows, limit) ==
    LET unprocessed == {id \in 1..Len(rows) : ~rows[id].processed_at}
        n == Min(limit, Cardinality(unprocessed))
    IN  [k \in 1..n |->
            CHOOSE id \in unprocessed :
                Cardinality({j \in unprocessed : j > id}) = k - 1]

\* what prioritize_batch may return for the message dicts: one scored dict
\* per message, in order, by the fallback path or by the model path
BatchResults(ids) ==
    LET dicts == [k \in 1..Len(ids) |-> RowMessage(ids[k])]
        withId(list) == [k \in 1..Len(ids) |-> [db_id |-> ids[k]] @@ list[k]]
    IN  {withId(FallbackPrioritization(dicts)),
         withId(ApplyMultipliers(MergePriorities(dicts, <<>>)))}

InitRun ==
    /\ messages = <<>>
    /\ batch_size = 1
    /\ pc = "run_idle"
    /\ i = 0
    /\ attempt = 0
    /\ response = NoResponse
    /\ merged = <<>>
    /\ prioritized = <<>>
    /\ your_user_id = "U1"
    /\ outcomes = <<>>
    /\ requests = 0
    /\ args = NoCall
    /\ result = NoResult
    /\ total_requests = 0
    /\ db = <<>>
    /\ new_messages = <<>>
    /\ save_pos = 0
    /\ saved_count = 0
    /\ errors = <<>>
    /\ stats = NoStats

engineVars == <<messages, batch_size, i, attempt, response, merged, your_user_id,
                outcomes, requests, args, result, total_requests>>

\* CacheService.save_message: the ingester inserts a new, unprocessed row
SaveMessage ==
    /\ pc = "run_idle"
    /\ Len(db) < MaxRows
    /\ db' = Append(db, [processed_at |-> FALSE, insights |-> 0])
    /\ UNCHANGED <<pc, prioritized, new_messages, save_pos, saved_count, errors, stats>>
    /\ UNCHANGED engineVars

\* prioritize_new_messages up to the save loop: fetch, convert, prioritize_batch;
\* with nothing to do it returns the empty stats at once
StartRun ==
    /\ pc = "run_idle"
    /\ LET fetched == GetUnprocessedMessages(db, MaxFetch) IN
       IF fetched = <<>> THEN
           /\ stats' = [total_messages |-> 0, prioritized |-> 0, errors |-> <<>>,
                        returned |-> TRUE]
           /\ UNCHANGED <<pc, prioritized, new_messages, save_pos, saved_count, errors>>
       ELSE
           /\ new_messages' = fetched
           /\ prioritized' \in BatchResults(fetched)
           /\ save_pos' = 1
           /\ saved_count' = 0
           /\ errors' = <<>>
           /\ pc' = "saving"
           /\ UNCHANGED stats
    /\ UNCHANGED db
    /\ UNCHANGED engineVars

\* variant of SaveInsight: the insight is stored, processed_at is not set
SaveInsightNoMark ==
    /\ pc = "saving"
    /\ save_pos <= Len(prioritized)
    /\ LET id == prioritized[save_pos].db_id IN
           db' = [db EXCEPT ![id].insights = @ + 1]
    /\ saved_count' = saved_count + 1
    /\ save_pos' = save_pos + 1
    /\ UNCHANGED <<pc, prioritized, new_messages, errors, stats>>
    /\ UNCHANGED engineVars

\* the save loop, try branch: cache.save_insight commits the insight and the
\* denormalised fields of the message, processed_at among them
SaveInsight ==
    /\ pc = "saving"
    /\ save_pos <= Len(prioritized)
    /\ LET id == prioritized[save_pos].db_id IN
           db' = [db EXCEPT ![id].processed_at = TRUE, ![id].insights = @ + 1]
    /\ saved_count' = saved_count + 1
    /\ save_pos' = save_pos + 1
    /\ UNCHANGED <<pc, prioritized, new_messages, errors, stats>>
    /\ UNCHANGED engineVars

\* variant of SaveInsightRaises: the error ends the save loop
SaveInsightRaisesAborts ==
    /\ pc = "saving"
    /\ save_pos <= Len(prioritized)
    /\ errors' = Append(errors, [message_id |-> prioritized[save_pos].db_id])
    /\ save_pos' = Len(prioritized) + 1
    /\ UNCHANGED <<pc, db, prioritized, new_messages, saved_count, stats>>
    /\ UNCHANGED engineVars

\* the save loop, except branch: cache.save_insight rolled back and raised;
\* the error is recorded and the loop goes on
SaveInsightRaises ==
    /\ pc = "saving"
    /\ save_pos <= Len(prioritized)
    /\ errors' = Append(errors, [message_id |-> prioritized[save_pos].db_id])
    /\ save_pos' = save_pos + 1
    /\ UNCHANGED <<pc, db, prioritized, new_messages, saved_count, stats>>
    /\ UNCHANGED engineVars

\* the save loop is exhausted: return the stats
ReturnStats ==
    /\ pc = "saving"
    /\ save_pos > Len(prioritized)
    /\ stats' = [total_messages |-> Len(new_messages), prioritized |-> saved_count,
                 errors |-> errors, returned |-> TRUE]
    /\ pc' = "run_idle"
    /\ UNCHANGED <<db, prioritized, new_messages, save_pos, saved_count, errors>>
    /\ UNCHANGED engineVars

NextRun == SaveMessage \/ StartRun \/ SaveInsight \/ SaveInsightRaises \/ ReturnStats

SpecRun == InitRun /\ [][NextRun]_vars

----------------------------------------------------------------------------
(* The batch that has just been completed, and its results.  Between the    *)
(* completion of a batch and the start of the next one, `outcomes` is the   *)
(* list of the outcomes of its attempts.                                    *)

BatchDone == pc \in {"loop", "returned"} /\ i > 0

LastBatch == SubSeq(messages, i - batch_size + 1, Min(i, Len(messages)))

LastResults == SubSeq(prioritized, i - batch_size + 1, Min(i, Len(messages)))

Failures == {"mismatch", "JSONDecodeError", "Exception"}

AllOutcomesIn(kinds) ==
    /\ Len(outcomes) = max_retries
    /\ \A k \in 1..Len(outcomes) : outcomes[k] \in kinds

----------------------------------------------------------------------------
(* C1: prioritize_batch returns a list as long as its input, whose element  *)
(* at each position is the scored version of the input message at that      *)
(* position; between batches the output is the scored prefix processed so   *)
(* far.                                                                     *)

C1_OrderPreserved ==
    /\ pc = "loop" => Len(prioritized) = Min(i, Len(messages))
    /\ pc = "returned" => Len(prioritized) = Len(messages)
    /\ pc \in {"loop", "returned"} =>
          \A k \in 1..Len(prioritized) : Unscored(prioritized[k]) = messages[k]

C1_Witness ==
    /\ pc = "returned"
    /\ Len(messages) = 2
    /\ batch_size = 1
    /\ messages[1] # messages[2]
    /\ Len(prioritized) = 2

(* C2: when every one of the max_retries attempts of a batch returned a     *)
(* priorities list of the wrong length, every message of the batch carries  *)
(* its FallbackScorer result (the wrong-count response is never merged).    *)

C2_MismatchFallsBack ==
    (BatchDone /\ AllOutcomesIn({"mismatch"}))
        => LastResults = FallbackPrioritization(LastBatch)

(* C3: when every one of the max_retries attempts of a batch failed with    *)
(* malformed JSON or a request error, the results of the batch are exactly  *)
(* the keyword-based results of FallbackScorer, for every message of it.    *)

C3_AllFailFallback ==
    (BatchDone /\ AllOutcomesIn({"JSONDecodeError", "Exception"}))
        => /\ Len(LastResults) = Len(LastBatch)
           /\ \A k \in 1..Len(LastBatch) : LastResults[k] = FallbackOne(LastBatch[k])

C3_Witness ==
    /\ BatchDone
    /\ outcomes = <<"JSONDecodeError", "Exception", "JSONDecodeError">>
    /\ Len(LastBatch) = 2
    /\ LastResults[1].priority_score = 80
    /\ LastResults[2].priority_score = 85

(* C4: no failure of the model (malformed JSON, wrong count, request error, *)
(* missing entry) makes prioritize_batch raise: it returns normally with a  *)
(* result for every input message.                                          *)

C4_NeverRaises ==
    /\ pc # "raised"
    /\ pc = "returned" => Len(prioritized) = Len(messages)

C4_Witness ==
    /\ pc = "returned"
    /\ batch_size = 2
    /\ Len(prioritized) = 2
    /\ outcomes = <<"Exception", "JSONDecodeError", "mismatch">>
    /\ \E k \in 1..2 : prioritized[k].priority_reason.reason = "No priority assigned by AI"

(* C5: for each batch at most max_retries (3) model requests are issued, a  *)
(* request after the first is issued only after all earlier attempts of the *)
(* batch failed, and the batch always completes with one result per message *)
(* appended: every step inside a batch strictly decreases a natural-valued  *)
(* measure, and a batch that was started is eventually back at the head of  *)
(* the batch loop.                                                          *)

BatchPcs == {"request", "awaiting", "parsing", "merged"}

C5_Measure ==
    IF pc \in BatchPcs
    THEN 4 * (max_retries - attempt)
           + (CASE pc = "request" -> 4
                [] pc = "awaiting" -> 3
                [] pc = "parsing" -> 2
                [] pc = "merged" -> 1)
    ELSE 0

C5_BoundedRetriesTerminate ==
    /\ [](/\ requests <= 3
          /\ pc \in {"awaiting", "parsing"} =>
                /\ requests = Len(outcomes) + 1
                /\ \A k \in 1..Len(outcomes) : outcomes[k] \in Failures
          /\ pc \in BatchPcs => C5_Measure > 0)
    /\ [][(pc \in BatchPcs) => (C5_Measure > C5_Measure')]_vars
    /\ [][(pc \in BatchPcs /\ pc' \notin BatchPcs) =>
            /\ pc' = "loop"
            /\ Len(prioritized') = Len(prioritized) + Len(Batch)]_vars
    /\ (pc = "request") ~> (pc = "loop")

C5_Witness ==
    /\ BatchDone
    /\ requests = 3
    /\ AllOutcomesIn(Failures)
    /\ Len(LastResults) = Len(LastBatch)
    /\ Len(LastBatch) = 2

(* C6: every message in the output of prioritize_batch has a priority_score *)
(* in 0..100, whatever the model response contains.                         *)

C6_ScoreInRange ==
    \A k \in 1..Len(prioritized) : prioritized[k].priority_score \in 0..100

(* C7: every message in the output of prioritize_batch has the category     *)
(* that _score_to_category gives for its priority_score.                    *)

C7_CategoryFromScore ==
    \A k \in 1..Len(prioritized) :
        prioritized[k].category = ScoreToCategory(prioritized[k].priority_score)

(* C8: the results of a batch that fell back are the FallbackScorer results *)
(* adjusted by the multiplier rules (channel, mention, VIP).                *)

C8_FallbackAdjusted ==
    (/\ BatchDone
     /\ Len(outcomes) = max_retries
     /\ outcomes[max_retries] \in {"JSONDecodeError", "Exception"})
        => LastResults = ApplyMultipliers(FallbackPrioritization(LastBatch))

(* C9: a response with exactly len(batch) entries is merged at once: a      *)
(* message whose number no entry carries gets the neutral default (score    *)
(* 50, category fyi), every other message the values of an entry carrying   *)
(* its number; the merged batch then goes through the multipliers and is    *)
(* appended, with no further request and no fallback.                       *)

C9_Expected(j) ==
    IF \A k \in 1..Len(response.priorities) : response.priorities[k].message_number # j
    THEN /\ merged[j].priority_score = 50
         /\ merged[j].category = "fyi"
         /\ merged[j].priority_reason = PlainReason("No priority assigned by AI")
    ELSE \E k \in 1..Len(response.priorities) :
            /\ response.priorities[k].message_number = j
            /\ merged[j].priority_score = response.priorities[k].score
            /\ merged[j].category = response.priorities[k].category
            /\ merged[j].priority_reason = PlainReason(response.priorities[k].reason)

C9_MissingEntryDefaulted ==
    /\ [][(/\ pc = "parsing"
            /\ response.kind = "json"
            /\ Len(response.priorities) = Len(Batch))
              => (pc' = "merged" /\ response' = response /\ requests' = requests)]_vars
    /\ []((pc = "merged" /\ Len(response.priorities) = Len(Batch))
              => /\ Len(merged) = Len(Batch)
                 /\ \A j \in 1..Len(Batch) :
                       Unscored(merged[j]) = Batch[j] /\ C9_Expected(j))
    /\ [][(pc = "merged" /\ Len(response.priorities) = Len(Batch))
              => /\ pc' = "loop"
                 /\ requests' = requests
                 /\ Len(prioritized') = Len(prioritized) + Len(merged)
                 /\ \A j \in 1..Len(merged) :
                       prioritized'[Len(prioritized) + j].priority_reason.reason
                           = merged[j].priority_reason.reason]_vars

C9_Witness ==
    /\ pc = "merged"
    /\ Len(Batch) = 2
    /\ Len(response.priorities) = 2
    /\ response.priorities[1].message_number = 2
    /\ response.priorities[2].message_number = 2
    /\ merged[1].priority_score = 50
    /\ merged[2].priority_score = response.priorities[2].score
    /\ attempt = 0

(* C10: for a message in a muted channel whose text contains the mention    *)
(* token of the configured user, _apply_multipliers records the override    *)
(* entry and no penalty entry, and the final score is the base score        *)
(* changed by the mention boost (and the VIP boost for a VIP sender) only.  *)

C10_Trail(k) == prioritized[k].priority_reason.adjusted

C10_MutedMentionOverride ==
    pc = "mul_done" =>
        \A k \in 1..Len(merged) :
            (/\ Normalize(merged[k].channel_name) \in muted_channels
             /\ IsMentioned(merged[k].text))
            => LET base == merged[k].priority_score * SCALE
                   boosted == ApplyDiminishingMultiplier(base, MENTION_MULTIPLIER)
                   vip == Normalize(merged[k].user_name) \in vip_people
               IN  /\ C10_Trail(k)[1] = "muted channel skipped (@mention override)"
                   /\ \A n \in 1..Len(C10_Trail(k)) :
                         C10_Trail(k)[n] \notin {"muted channel x0.5", "priority channel x1.5"}
                   /\ prioritized[k].priority_score =
                         IF vip
                         THEN Round(ApplyDiminishingMultiplier(boosted, VIP_MULTIPLIER))
                         ELSE Round(boosted)

C10_Witness ==
    /\ pc = "mul_done"
    /\ merged[1].channel_name = "random"
    /\ merged[1].user_name = "Boss "
    /\ IsMentioned(merged[1].text)
    /\ merged[1].priority_score = 40
    /\ prioritized[1].priority_score = 87
    /\ C10_Trail(1) = <<"muted channel skipped (@mention override)",
                        "@mention x2.0", "VIP x2.0">>

(* C11: for a message of a VIP sender that mentions the configured user in  *)
(* a priority channel that is not muted, the adjustment trail is exactly    *)
(* priority channel x1.5, @mention x2.0, VIP x2.0 in that order, and the    *)
(* final score is round(diminish(diminish(diminish(base, 1.5), 2.0), 2.0)). *)

C11_Chained(base) ==
    Round(ApplyDiminishingMultiplier(
              ApplyDiminishingMultiplier(
                  ApplyDiminishingMultiplier(base * SCALE, 15), 20), 20))

C11_StackingOrder ==
    pc = "mul_done" =>
        \A k \in 1..Len(merged) :
            (/\ Normalize(merged[k].user_name) \in vip_people
             /\ IsMentioned(merged[k].text)
             /\ Normalize(merged[k].channel_name) \in priority_channels
             /\ Normalize(merged[k].channel_name) \notin muted_channels)
            => /\ prioritized[k].priority_reason.adjusted =
                     <<"priority channel x1.5", "@mention x2.0", "VIP x2.0">>
               /\ prioritized[k].priority_score = C11_Chained(merged[k].priority_score)
               /\ prioritized[k].priority_reason.transition =
                     <<merged[k].priority_score, prioritized[k].priority_score>>

C11_Witness ==
    /\ pc = "mul_done"
    /\ merged[1].user_name = "Boss "
    /\ merged[1].channel_name = "Alerts"
    /\ merged[1].text = <<"URGENT", "<@U1>">>
    /\ your_user_id = "U1"
    /\ merged[1].priority_score = 40
    /\ prioritized[1].priority_score = 95
    /\ prioritized[1].priority_reason.adjusted =
          <<"priority channel x1.5", "@mention x2.0", "VIP x2.0">>

(* C12: for every score s in [0,100] and every multiplier m > 1,            *)
(* _apply_diminishing_multiplier(s, m) is strictly less than 100.           *)

C12_BelowHundred ==
    (/\ Returned("_apply_diminishing_multiplier")
     /\ args.score >= 0
     /\ args.score <= 100 * SCALE
     /\ args.multiplier > MULT_UNIT)
        => result < 100 * SCALE

(* C13: for a base score in [0,100], the scores after the channel step,     *)
(* after the mention step and after the VIP step of _apply_multipliers, and *)
(* the final score, never exceed 100 and are below 100 when the base score  *)
(* is below 100; the final score is the rounded last step, not a clamp.     *)

C13_Steps(msg) ==
    LET is_mentioned == IsMentioned(msg.text)
        st0 == [score |-> msg.priority_score * SCALE, adjustments |-> <<>>]
        st1 == ChannelStep(Normalize(msg.channel_name), is_mentioned, st0)
        st2 == MentionStep(is_mentioned, st1)
        st3 == VipStep(Normalize(msg.user_name), st2)
    IN  <<st1.score, st2.score, st3.score>>

C13_FinalBelowHundred ==
    pc = "mul_done" =>
        \A k \in 1..Len(merged) :
            merged[k].priority_score \in 0..100 =>
                /\ \A n \in 1..3 : C13_Steps(merged[k])[n] <= 100 * SCALE
                /\ prioritized[k].priority_score <= 100
                /\ prioritized[k].priority_score = Round(C13_Steps(merged[k])[3])
                /\ merged[k].priority_score < 100 =>
                      /\ \A n \in 1..3 : C13_Steps(merged[k])[n] < 100 * SCALE
                      /\ prioritized[k].priority_score < 100

(* C13 (amended): as above, except that below 100 holds for the scores      *)
(* before rounding only: round() may take a score of 99.5 or more to 100.   *)

C13_BoostsStayInRange ==
    pc = "mul_done" =>
        \A k \in 1..Len(merged) :
            merged[k].priority_score \in 0..100 =>
                /\ \A n \in 1..3 : C13_Steps(merged[k])[n] <= 100 * SCALE
                /\ prioritized[k].priority_score <= 100
                /\ prioritized[k].priority_score = Round(C13_Steps(merged[k])[3])
                /\ merged[k].priority_score < 100 =>
                      \A n \in 1..3 : C13_Steps(merged[k])[n] < 100 * SCALE

C13_Witness ==
    /\ pc = "mul_done"
    /\ merged[1].priority_score = 90
    /\ merged[1].user_name = "Boss "
    /\ merged[1].channel_name = "general"
    /\ IsMentioned(merged[1].text)
    /\ C13_Steps(merged[1]) = <<90000, 99000, 99990>>
    /\ prioritized[1].priority_score = 100

(* C14: _apply_diminishing_multiplier is strictly increasing in both        *)
(* arguments: for a multiplier m > 1 and scores s < s2 in [0,100] the       *)
(* result for s is less than the result for s2, and for a score s in        *)
(* [0,100] and multipliers 1 < m < m2 the result for m is less than the     *)
(* result for m2.                                                           *)

C14_StrictlyIncreasing ==
    (/\ Returned("_apply_diminishing_multiplier")
     /\ args.score >= 0
     /\ args.score <= 100 * SCALE
     /\ args.multiplier > MULT_UNIT)
        => /\ \A s2 \in 0..100 :
                 args.score < s2 * SCALE =>
                     result < ApplyDiminishingMultiplier(s2 * SCALE, args.multiplier)
           /\ \A m2 \in FnMultipliers :
                 args.multiplier < m2 =>
                     result < ApplyDiminishingMultiplier(args.score, m2)

(* C15: _apply_diminishing_multiplier with multiplier 2.0 returns exactly   *)
(* 75 for score 50, 91 for score 70 and 99 for score 90.                    *)

C15_Examples ==
    (Returned("_apply_diminishing_multiplier") /\ args.multiplier = 20)
        => /\ args.score = 50 * SCALE => result = 75 * SCALE
           /\ args.score = 70 * SCALE => result = 91 * SCALE
           /\ args.score = 90 * SCALE => result = 99 * SCALE

C15_Witness ==
    /\ Returned("_apply_diminishing_multiplier")
    /\ args.multiplier = 20
    /\ args.score = 70 * SCALE
    /\ result = 91 * SCALE

(* C16: for every score s and every multiplier m <= 1,                      *)
(* _apply_diminishing_multiplier(s, m) is exactly s * m: s itself for       *)
(* m = 1.0, and the plain product for m < 1, however low it is.             *)

C16_PenaltyIsProduct ==
    (Returned("_apply_diminishing_multiplier") /\ args.multiplier <= MULT_UNIT)
        => /\ result * MULT_UNIT = args.score * args.multiplier
           /\ args.multiplier = MULT_UNIT => result = args.score

C16_Witness ==
    /\ Returned("_apply_diminishing_multiplier")
    /\ args.multiplier = 5
    /\ args.score = 1 * SCALE
    /\ 2 * result = SCALE

(* C17: _score_to_category gives every integer score exactly one of the     *)
(* four categories, with thresholds 80, 70 and 50 (80 -> needs_response,    *)
(* 79 and 70 -> high_priority, 69 and 50 -> fyi, 49 -> low_priority), and   *)
(* a higher score never gets a lower category.                              *)

C17_Rank(category) ==
    CASE category = "low_priority" -> 0
      [] category = "fyi" -> 1
      [] category = "high_priority" -> 2
      [] category = "needs_response" -> 3

C17_Thresholds ==
    Returned("_score_to_category") =>
        /\ result \in Categories
        /\ result = "needs_response" <=> args.score >= 80
        /\ result = "high_priority" <=> args.score \in 70..79
        /\ result = "fyi" <=> args.score \in 50..69
        /\ result = "low_priority" <=> args.score <= 49
        /\ \A s2 \in FnScores :
              args.score < s2 => C17_Rank(result) <= C17_Rank(ScoreToCategory(s2))

C17_Witness ==
    /\ Returned("_score_to_category")
    /\ args.score = 80
    /\ result = "needs_response"
    /\ ScoreToCategory(79) = "high_priority"

(* C18: _fallback_prioritization gives each message the score and category  *)
(* of the first keyword group, in the order urgent (90, needs_response),    *)
(* mention (85, needs_response), production (80, high_priority), decision   *)
(* (75, high_priority), informational (40, fyi), casual (20, low_priority), *)
(* that has a word in the lowercased text, and (50, fyi) when none has; two *)
(* messages with the same lowercased text get the same score and category.  *)

C18_Groups ==
    <<[words |-> {"urgent", "asap", "emergency", "critical", "blocking"},
       score |-> 90, category |-> "needs_response"],
      [words |-> {"@", "mention"}, score |-> 85, category |-> "needs_response"],
      [words |-> {"production", "down", "error", "issue"},
       score |-> 80, category |-> "high_priority"],
      [words |-> {"decision", "approval", "review"},
       score |-> 75, category |-> "high_priority"],
      [words |-> {"fyi", "update", "reminder"}, score |-> 40, category |-> "fyi"],
      [words |-> {"lol", "coffee", "lunch", "casual"},
       score |-> 20, category |-> "low_priority"]>>

C18_Matching(lowered) ==
    {g \in 1..Len(C18_Groups) : AnyWordIn(C18_Groups[g].words, lowered)}

C18_Expected(lowered) ==
    IF C18_Matching(lowered) = {}
    THEN [score |-> 50, category |-> "fyi"]
    ELSE LET first == CHOOSE g \in C18_Matching(lowered) :
                          \A h \in C18_Matching(lowered) : g <= h
         IN  [score |-> C18_Groups[first].score,
              category |-> C18_Groups[first].category]

C18_FirstGroupWins ==
    Returned("_fallback_prioritization") =>
        /\ Len(result) = Len(args.messages)
        /\ \A k \in 1..Len(args.messages) :
              LET expected == C18_Expected(LowerText(args.messages[k].text)) IN
              /\ result[k].priority_score = expected.score
              /\ result[k].category = expected.category
              /\ \A u \in Users, c \in Channels, t \in FallbackTexts :
                    LowerText(t) = LowerText(args.messages[k].text) =>
                        LET other == FallbackPrioritization(<<Message(u, c, t)>>)[1]
                        IN  /\ other.priority_score = result[k].priority_score
                            /\ other.category = result[k].category

C18_Witness ==
    /\ Returned("_fallback_prioritization")
    /\ args.messages[1].text = <<"URGENT", "<@U1>">>
    /\ result[1].priority_score = 90
    /\ result[1].category = "needs_response"
    /\ FallbackPrioritization(<<Message("bob", "random", <<"urgent", "<@u1>">>)>>)[1]
           .priority_score = 90

(* C19: prioritize_batch never has two batches in flight: while a batch is  *)
(* being processed the output list holds the results of exactly the         *)
(* messages before it, every model request is issued for the batch at i in  *)
(* that situation, and the loop moves to the next batch only in the step    *)
(* that appends the results of the current one.                             *)

C19_Sequential ==
    /\ []((pc \in BatchPcs) => (i < Len(messages) /\ Len(prioritized) = i))
    /\ [][(requests' = requests + 1)
            => /\ Len(prioritized) = i
               /\ Len(prioritized') = i'
               /\ i' = i
               /\ pc' = "awaiting"]_vars
    /\ [][(pc \in BatchPcs /\ i' # i)
            => /\ pc' = "loop"
               /\ i' = i + batch_size
               /\ Len(prioritized') = Len(prioritized) + Len(Batch)]_vars
    /\ [][(pc = "loop" /\ pc' = "request") => Len(prioritized) = i]_vars

C19_Witness ==
    /\ pc = "awaiting"
    /\ requests = 1
    /\ batch_size = 1
    /\ Len(messages) = 2
    /\ i = 1
    /\ Len(prioritized) = 1
    /\ Unscored(prioritized[1]) = messages[1]

(* C20: no step of the engine changes an input message: from the call of    *)
(* prioritize_batch on, the list of input messages keeps its value, and     *)
(* when the call has returned every input message has its own fields only,  *)
(* each with the value it had, while every result is another record that    *)
(* repeats those fields and adds the priority fields.                       *)

C20_InputFields == {"user_name", "channel_name", "text"}

C20_InputsUntouched ==
    /\ [][(pc # "idle") => (messages' = messages)]_vars
    /\ []((pc = "returned")
            => /\ Len(prioritized) = Len(messages)
               /\ \A k \in 1..Len(messages) :
                     /\ messages[k] \in MsgUniverse
                     /\ DOMAIN messages[k] = C20_InputFields
                     /\ \A f \in C20_InputFields : prioritized[k][f] = messages[k][f]
                     /\ DOMAIN prioritized[k] =
                           C20_InputFields
                               \cup {"priority_score", "priority_reason", "category"})

C20_Witness ==
    /\ pc = "returned"
    /\ batch_size = 1
    /\ Len(messages) = 2
    /\ messages[1] = Message("bob", "general", <<"hello">>)
    /\ messages[2] = Message("bob", "Alerts", <<"FYI", "update">>)
    /\ prioritized[1].priority_reason.reason = "Fallback prioritization"
    /\ prioritized[2].priority_reason.reason = "Project update"
    /\ prioritized[2].priority_score = 72

(* C21: the keyword fallback is used for a batch only when every one of     *)
(* the max_retries attempts of the batch failed; an attempt that succeeds   *)
(* (a JSON body with one entry per message) is the last attempt of the      *)
(* batch, no further request is issued, and the results of the batch are    *)
(* computed from the body of that attempt alone.                            *)

C21_FallbackReasons ==
    {"Contains urgent keywords", "Contains @mention", "Production-related keywords",
     "Decision required", "Informational", "Casual conversation",
     "Fallback prioritization"}

C21_FallbackUsed ==
    \E k \in 1..Len(LastResults) :
        LastResults[k].priority_reason.reason \in C21_FallbackReasons

C21_FallbackOnlyAfterAllFailed ==
    /\ []((BatchDone /\ C21_FallbackUsed)
            => /\ AllOutcomesIn(Failures)
               /\ requests = max_retries)
    /\ []((BatchDone /\ \E k \in 1..Len(outcomes) : outcomes[k] = "ok")
            => /\ outcomes[Len(outcomes)] = "ok"
               /\ \A k \in 1..(Len(outcomes) - 1) : outcomes[k] \in Failures
               /\ requests = Len(outcomes)
               /\ ~C21_FallbackUsed)
    /\ [][(/\ pc = "merged"
            /\ Len(response.priorities) = Len(Batch))
              => /\ requests' = requests
                 /\ pc' = "loop"
                 /\ prioritized' =
                       prioritized \o ApplyMultipliers(
                                          MergePriorities(Batch, response.priorities))]_vars

C21_Witness ==
    /\ BatchDone
    /\ outcomes = <<"Exception", "mismatch", "ok">>
    /\ requests = 3
    /\ Len(LastBatch) = 2
    /\ LastResults[1].priority_reason.reason = "Project update"
    /\ LastResults[2].priority_reason.reason = "No priority assigned by AI"

(* C22: retry state does not cross batch boundaries: every batch starts at  *)
(* attempt 0 with no request issued, whatever happened to the batches       *)
(* before it, and may use all max_retries attempts; every request covers at *)
(* most batch_size messages; and a run over n messages issues at most       *)
(* max_retries * ceil(n / batch_size) requests.                             *)

C22_Ceil(n, d) == (n + d - 1) \div d

C22_BatchesStarted == IF pc \in BatchPcs THEN (i \div batch_size) + 1
                      ELSE C22_Ceil(Min(i, Len(messages)), batch_size)

C22_RetryBudgetPerBatch ==
    /\ [][(pc = "loop" /\ pc' = "request")
            => (attempt' = 0 /\ requests' = 0 /\ outcomes' = <<>>)]_vars
    /\ []((pc \in BatchPcs)
            => /\ attempt < max_retries
               /\ Len(Batch) <= batch_size
               /\ Len(Batch) >= 1
               /\ i % batch_size = 0)
    /\ [](pc # "idle" =>
            /\ total_requests <= max_retries * C22_BatchesStarted
            /\ total_requests <= max_retries * C22_Ceil(Len(messages), batch_size))
    /\ [][(total_requests' = total_requests + 1)
            => (requests' = requests + 1 /\ requests < max_retries)]_vars

C22_Witness ==
    /\ pc = "returned"
    /\ Len(messages) = 2
    /\ batch_size = 1
    /\ total_requests = 4
    /\ requests = 1
    /\ outcomes = <<"ok">>
    /\ prioritized[1].priority_reason.reason = "Production-related keywords"

(* C23: the channel step of _apply_multipliers is mutually exclusive: the   *)
(* trail of a message holds at most one of the entries muted channel x0.5,  *)
(* muted channel skipped, priority channel x1.5; a channel that is in both  *)
(* muted_channels and priority_channels is treated as muted, with or        *)
(* without a mention: it gets no priority entry and the score the message   *)
(* would get in a channel that is muted only.                               *)

C23_ChannelEntries ==
    {"muted channel x0.5", "muted channel skipped (@mention override)",
     "priority channel x1.5"}

C23_ChannelStepExclusive ==
    pc = "mul_done" =>
        \A k \in 1..Len(merged) :
            LET trail == prioritized[k].priority_reason.adjusted
                channel_name == Normalize(merged[k].channel_name)
                inMutedOnly == [merged[k] EXCEPT !.channel_name = "random"]
            IN  /\ Cardinality({n \in 1..Len(trail) : trail[n] \in C23_ChannelEntries}) <= 1
                /\ channel_name \in muted_channels =>
                      /\ \A n \in 1..Len(trail) : trail[n] # "priority channel x1.5"
                      /\ trail # <<>>
                      /\ trail[1] = IF IsMentioned(merged[k].text)
                                    THEN "muted channel skipped (@mention override)"
                                    ELSE "muted channel x0.5"
                      /\ prioritized[k].priority_score = AdjustOne(inMutedOnly).priority_score
                /\ (channel_name \in priority_channels /\ channel_name \notin muted_channels)
                      => trail # <<>> /\ trail[1] = "priority channel x1.5"
                /\ (channel_name \notin priority_channels /\ channel_name \notin muted_channels)
                      => \A n \in 1..Len(trail) : trail[n] \notin C23_ChannelEntries

C23_Witness ==
    /\ pc = "mul_done"
    /\ merged[1].channel_name = "both"
    /\ merged[1].user_name = "bob"
    /\ ~IsMentioned(merged[1].text)
    /\ merged[1].priority_score = 60
    /\ prioritized[1].priority_reason.adjusted = <<"muted channel x0.5">>
    /\ prioritized[1].priority_score = 30

(* C24: in every adjustment trail of _apply_multipliers the entries are in  *)
(* the order channel entry, @mention, VIP, each at most once; the @mention  *)
(* entry is present exactly when the message mentions the configured user,  *)
(* whatever the channel branch; the VIP entry is present exactly for a VIP  *)
(* sender and is then the last entry, its boost being the last one applied. *)

C24_Rank(entry) ==
    IF entry \in C23_ChannelEntries THEN 1
    ELSE IF entry = "@mention x2.0" THEN 2
    ELSE IF entry = "VIP x2.0" THEN 3
    ELSE 0

C24_TrailOrder ==
    pc = "mul_done" =>
        \A k \in 1..Len(merged) :
            LET trail == prioritized[k].priority_reason.adjusted
                vip == Normalize(merged[k].user_name) \in vip_people
            IN  /\ \A n \in 1..Len(trail) : C24_Rank(trail[n]) \in 1..3
                /\ \A a, b \in 1..Len(trail) :
                      a < b => C24_Rank(trail[a]) < C24_Rank(trail[b])
                /\ (\E n \in 1..Len(trail) : trail[n] = "@mention x2.0")
                      <=> IsMentioned(merged[k].text)
                /\ (\E n \in 1..Len(trail) : trail[n] = "VIP x2.0") <=> vip
                /\ vip => /\ trail[Len(trail)] = "VIP x2.0"
                          /\ prioritized[k].priority_score =
                                Round(ApplyDiminishingMultiplier(
                                          C13_Steps(merged[k])[2], 20))

C24_Witness ==
    /\ pc = "mul_done"
    /\ merged[1].channel_name = "both"
    /\ merged[1].user_name = "Boss "
    /\ IsMentioned(merged[1].text)
    /\ merged[1].priority_score = 30
    /\ prioritized[1].priority_reason.adjusted =
          <<"muted channel skipped (@mention override)", "@mention x2.0", "VIP x2.0">>
    /\ prioritized[1].priority_score = 76

(* C25: the results of a batch that took the model path (a merged response, *)
(* entries of the model or neutral defaults) carry the category that        *)
(* _score_to_category gives for their final score, not the category of the  *)
(* response, also for a message no adjustment rule fired for.               *)

C25_ModelPath ==
    /\ BatchDone
    /\ outcomes # <<>>
    /\ outcomes[Len(outcomes)] \in {"ok", "mismatch"}

C25_CategoryRecomputed ==
    C25_ModelPath =>
        \A k \in 1..Len(LastResults) :
            LastResults[k].category = ScoreToCategory(LastResults[k].priority_score)

C25_Witness ==
    /\ C25_ModelPath
    /\ outcomes = <<"ok">>
    /\ Len(LastBatch) = 1
    /\ LastBatch[1] = Message("bob", "general", <<"hello">>)
    /\ LastResults[1].priority_reason = PlainReason("Project update")
    /\ LastResults[1].priority_score = 60
    /\ LastResults[1].category = "fyi"

(* C26: _apply_multipliers changes priority_reason exactly when an          *)
(* adjustment entry was recorded: a message for which no channel, mention   *)
(* or VIP rule fires keeps its reason and its score; any other message gets *)
(* the original reason followed by the ordered trail and the transition     *)
(* from the base score to the final score.                                  *)

C26_Trail(msg) ==
    LET channel_name == Normalize(msg.channel_name)
        channelPart ==
            IF channel_name \in muted_channels
            THEN IF IsMentioned(msg.text)
                 THEN <<"muted channel skipped (@mention override)">>
                 ELSE <<"muted channel x0.5">>
            ELSE IF channel_name \in priority_channels
                 THEN <<"priority channel x1.5">>
                 ELSE <<>>
        mentionPart == IF IsMentioned(msg.text) THEN <<"@mention x2.0">> ELSE <<>>
        vipPart == IF Normalize(msg.user_name) \in vip_people
                   THEN <<"VIP x2.0">> ELSE <<>>
    IN  channelPart \o mentionPart \o vipPart

C26_ReasonChangedIffAdjusted ==
    pc = "mul_done" =>
        \A k \in 1..Len(merged) :
            /\ (prioritized[k].priority_reason # merged[k].priority_reason)
                  <=> (C26_Trail(merged[k]) # <<>>)
            /\ C26_Trail(merged[k]) = <<>> =>
                  prioritized[k].priority_score = merged[k].priority_score
            /\ C26_Trail(merged[k]) # <<>> =>
                  /\ prioritized[k].priority_reason.reason =
                        merged[k].priority_reason.reason
                  /\ prioritized[k].priority_reason.adjusted = C26_Trail(merged[k])
                  /\ prioritized[k].priority_reason.transition =
                        <<merged[k].priority_score, prioritized[k].priority_score>>

C26_Witness ==
    /\ pc = "mul_done"
    /\ merged[1].user_name = "bob"
    /\ merged[1].channel_name = "random"
    /\ merged[1].text = <<"<@U1>", "lunch">>
    /\ merged[1].priority_score = 60
    /\ prioritized[1].priority_reason =
          [reason |-> "Project update",
           adjusted |-> <<"muted channel skipped (@mention override)", "@mention x2.0">>,
           transition |-> <<60, 84>>]

(* C27: for a base score in [0,100], a message in a muted channel that does *)
(* not mention the configured user never ends with a final score above its  *)
(* base score, also when the sender is a VIP and the VIP boost follows the  *)
(* 0.5 penalty.                                                             *)

C27_MutedNeverAboveBase ==
    pc = "mul_done" =>
        \A k \in 1..Len(merged) :
            (/\ merged[k].priority_score \in 0..100
             /\ Normalize(merged[k].channel_name) \in muted_channels
             /\ ~IsMentioned(merged[k].text))
            => /\ prioritized[k].priority_score <= merged[k].priority_score
               /\ prioritized[k].priority_reason.adjusted[1] = "muted channel x0.5"

C27_Witness ==
    /\ pc = "mul_done"
    /\ merged[1].user_name = "Boss "
    /\ merged[1].channel_name = "random"
    /\ merged[1].text = <<"lunch">>
    /\ merged[1].priority_score = 80
    /\ prioritized[1].priority_reason.adjusted = <<"muted channel x0.5", "VIP x2.0">>
    /\ prioritized[1].priority_score = 64

(* C28: for a base score in [0,100], a message the muted penalty is not     *)
(* applied to (its channel is not muted, or it is muted and the message     *)
(* mentions the configured user) never ends with a final score below its    *)
(* base score.                                                              *)

C28_BoostsNeverLower ==
    pc = "mul_done" =>
        \A k \in 1..Len(merged) :
            (/\ merged[k].priority_score \in 0..100
             /\ \/ Normalize(merged[k].channel_name) \notin muted_channels
                \/ IsMentioned(merged[k].text))
            => /\ prioritized[k].priority_score >= merged[k].priority_score
               /\ \A n \in 1..3 :
                     C13_Steps(merged[k])[n] >= merged[k].priority_score * SCALE

C28_Witness ==
    /\ pc = "mul_done"
    /\ merged[1].user_name = "bob"
    /\ merged[1].channel_name = "both"
    /\ merged[1].text = <<"<@U1>", "lunch">>
    /\ your_user_id = "U1"
    /\ merged[1].priority_score = 50
    /\ prioritized[1].priority_score = 75

(* C29: prioritize_new_messages accounts for every message it fetched: the  *)
(* returned total_messages is prioritized + len(errors); during the save    *)
(* loop every message before the loop position is either saved or in        *)
(* errors, and a failed save is followed by the attempt to save the next    *)
(* message, whose insight can be saved.                                     *)

C29_Accounting ==
    /\ [](stats.returned =>
            stats.total_messages = stats.prioritized + Len(stats.errors))
    /\ []((pc = "saving")
            => /\ Len(prioritized) = Len(new_messages)
               /\ \A k \in 1..Len(prioritized) : prioritized[k].db_id = new_messages[k]
               /\ saved_count + Len(errors) = save_pos - 1
               /\ \A k \in 1..Len(errors) :
                     \E n \in 1..(save_pos - 1) : errors[k].message_id = new_messages[n])
    /\ [][(pc = "saving" /\ Len(errors') = Len(errors) + 1)
            => /\ save_pos' = save_pos + 1
               /\ pc' = "saving"
               /\ saved_count' = saved_count
               /\ db' = db]_vars
    /\ [][(pc = "saving" /\ pc' = "run_idle")
            => /\ save_pos = Len(new_messages) + 1
               /\ stats'.total_messages = Len(new_messages)
               /\ stats'.prioritized = saved_count
               /\ stats'.errors = errors]_vars

C29_Witness ==
    /\ pc = "run_idle"
    /\ stats.returned
    /\ stats.total_messages = 2
    /\ stats.prioritized = 1
    /\ stats.errors = <<[message_id |-> 2]>>
    /\ new_messages = <<2, 1>>
    /\ db[1].processed_at
    /\ ~db[2].processed_at

(* C30: across any sequence of prioritize_new_messages runs, a message      *)
(* whose insight was saved has processed_at set and is never selected       *)
(* again, so it has at most one insight; a message whose save failed keeps  *)
(* processed_at unset and is selected again by the next run.                *)

C30_Selected(ids, id) == \E n \in 1..Len(ids) : ids[n] = id

C30_SavedOnce ==
    /\ [](\A id \in 1..Len(db) :
            /\ db[id].insights <= 1
            /\ db[id].insights = 1 <=> db[id].processed_at)
    /\ [][(pc = "run_idle" /\ pc' = "saving")
            => \A n \in 1..Len(new_messages') :
                  /\ ~db[new_messages'[n]].processed_at
                  /\ db[new_messages'[n]].insights = 0]_vars
    /\ [][(pc = "saving" /\ Len(errors') = Len(errors) + 1)
            => /\ db' = db
               /\ ~db[errors'[Len(errors')].message_id].processed_at]_vars
    /\ []((pc = "run_idle")
            => \A k \in 1..Len(stats.errors) :
                  ~db[stats.errors[k].message_id].processed_at)

C30_Newer(id) == {j \in 1..Len(db) : j > id /\ ~db[j].processed_at}

====
